---- MODULE Spec2Model ----
(***************************************************************************)
(* State-machine model of the RAG engine of kahan15/RAG-APP:               *)
(*   app/core/rag_engine.py      RAGEngine (registry, web tracker, query)  *)
(*   app/core/ingestion.py       ingest_file, ingest_web_page              *)
(*   app/core/chat.py            chat, clear_chat_history                  *)
(*   app/core/engine_singleton.py get_rag_engine, reset_rag_engine         *)
(* The vector store (Chroma) and the registry file persist across engine   *)
(* instances; the engine object's fields live only while the singleton is  *)
(* set.  Embeddings, the LLM, the network and the file parsers are the     *)
(* environment: their results are chosen nondeterministically.             *)
(***************************************************************************)
EXTENDS Integers, Sequences, FiniteSets, TLC

(* ------------------------------ bounds -------------------------------- *)
\* how many uuid4 document ids add_documents may draw in one behaviour
MaxDocs == 1
\* the largest number of chunks the splitter yields for one web page
MaxChunks == 1
\* the largest vector index explored, in units
MaxUnits == 2
\* the largest corpus, in units, that questions are asked about
MaxCited == 3
\* how many failures of the environment (vector store, registry file,
\* network, parser, language model) one behaviour may hold
MaxFaults == 1
\* the longest conversation memory explored
MaxTurns == 1
\* ... and where the conversation itself is examined
MaxAsked == 2
\* the largest max_depth of a crawl
MaxDepth == 3
\* the most files in one upload request
MaxUploads == 2

(* ------------------------- program constants -------------------------- *)
\* search_kwargs "k" of the retriever
K == 6
\* doc.metadata.get("relevance", 1.0), in tenths
DefaultRelevance == 10

\* Python's None
None == "None"

NO_DOCUMENTS_MSG == "No documents have been uploaded yet. Please upload a document first."
NO_RELEVANT_MSG == "I could not find any relevant information in the available documents to answer your question. Please try rephrasing your question or ensure that the relevant document has been uploaded."

(* ------------------------------ inputs -------------------------------- *)
Urls == {"http://a", "http://b"}
Questions == {"q"}
\* the questions of a conversation of several turns
FollowUps == {"q", "r"}
\* what the language model may answer: nothing, or some text
Answers == {"", "llm text"}

EmptyMap == [x \in {} |-> x]

(* ------------------------- dictionaries ------------------------------- *)
\* dict.get(k, default)
Get(m, k, default) == IF k \in DOMAIN m THEN m[k] ELSE default

\* metadata.get(k, '') for an integer-valued key: the value keeps its type
OptInt(m, k) == IF k \in DOMAIN m THEN <<"int", m[k]>> ELSE <<"str", "">>

Digits == <<"0", "1", "2", "3", "4", "5", "6", "7", "8", "9">>

RECURSIVE IntToStr(_)
\* str(n) of a non-negative int, as an f-string formats it
IntToStr(n) == IF n < 10 THEN Digits[n + 1]
               ELSE IntToStr(n \div 10) \o Digits[(n % 10) + 1]

\* f"{value}" of a value read with .get(k, '')
FmtOptInt(m, k) == IF k \in DOMAIN m THEN IntToStr(m[k]) ELSE ""

\* all sequences of n distinct elements of S
RECURSIVE Arrangements(_, _)
Arrangements(S, n) ==
    IF n = 0 THEN {<<>>}
    ELSE UNION {{<<x>> \o r : r \in Arrangements(S \ {x}, n - 1)} : x \in S}

Min(a, b) == IF a < b THEN a ELSE b

Range(s) == {s[i] : i \in DOMAIN s}
(* ------------------------------ state --------------------------------- *)
VARIABLES
    engine_up,            \* _rag_engine is not None
    current_web_ids,      \* RAGEngine.current_web_ids
    latest_document_id,   \* RAGEngine.latest_document_id
    document_metadata,    \* RAGEngine.document_metadata (the registry)
    memory,               \* the chain's ConversationBufferMemory, <<question, answer>> turns
    index,                \* the Chroma collection: unit id -> metadata
    disk_metadata,        \* document_metadata.json in the persistence directory
    next_uuid,            \* how many uuid4 values have been drawn
    last,                 \* the last operation: its inputs and what it returned
    last_add,             \* history: the last add_documents that returned
    last_web,             \* history: the last ingest_web_page that returned True
    ever_ingested,        \* history: some unit was committed to the index
    faults,               \* history: how many calls on the environment have failed
    upload,               \* the upload_files request in progress: its loop and its results
    inflight,             \* the ingest_web_page calls suspended at an await, by task
    retriever,            \* chain.retriever of a query in progress: its search filter
    asking                \* the query calls suspended at an await, by task

vars == <<engine_up, current_web_ids, latest_document_id, document_metadata,
          memory, index, disk_metadata, next_uuid, last, last_add, last_web,
          ever_ingested, faults, upload, inflight, retriever, asking>>

(* ----------------------- engine_singleton.py -------------------------- *)
\* RAGEngine.__init__: fresh fields, then _load_document_metadata
RAGEngineInit ==
    [current_web_ids    |-> {},
     latest_document_id |-> None,
     document_metadata  |-> disk_metadata,
     memory             |-> <<>>]

\* get_rag_engine(): the singleton, constructed when it is None
GetRagEngine ==
    IF engine_up
    THEN [current_web_ids    |-> current_web_ids,
          latest_document_id |-> latest_document_id,
          document_metadata  |-> document_metadata,
          memory             |-> memory]
    ELSE RAGEngineInit

\* the engine object e becomes the singleton's state
SetEngine(e) ==
    /\ engine_up' = TRUE
    /\ current_web_ids' = e.current_web_ids
    /\ latest_document_id' = e.latest_document_id
    /\ document_metadata' = e.document_metadata
    /\ memory' = e.memory

(* --------------------------- identifiers ------------------------------ *)
\* str(uuid.uuid4()) of the n-th draw
DocId(n) == "doc-" \o IntToStr(n)

\* ids that depend on the position of the unit alone: a second ingestion
\* overwrites the units of the first
UnitIdByPosition(n, i) == "unit-" \o IntToStr(i)

\* the id Chroma gives the i-th unit (0-based) of the n-th add_documents call
UnitId(n, i) == "unit-" \o IntToStr(n) \o "-" \o IntToStr(i)

\* f"web_{url}_{i}"
WebId(url, i) == "web_" \o url \o "_" \o IntToStr(i)

IndexIds == DOMAIN index

\* Chroma upsert of the units new (id -> metadata) into idx
Upsert(idx, new) ==
    [i \in DOMAIN idx \cup DOMAIN new |-> IF i \in DOMAIN new THEN new[i] ELSE idx[i]]

\* collection.delete(ids)
Delete(idx, ids) == [i \in DOMAIN idx \ ids |-> idx[i]]

(* ------------------------- source normalizers ------------------------- *)
Files == {"a.txt", "b.pdf", "empty.txt"}

\* process_text_file / split_text_into_documents: one chunk per piece of text
ProcessTextFile(name, nchunks) ==
    [i \in 1..nchunks |-> [file |-> name, chunk |-> i - 1]]

\* process_pdf_file: every page is split on its own, chunk numbers restart
\* on every page (here: pages of one chunk each)
ProcessPdfFile(name, npages) ==
    [p \in 1..npages |-> [file |-> name, page |-> p, chunk |-> 0]]

\* process_file: the documents of an upload
ProcessFile(name) ==
    CASE name = "a.txt" -> ProcessTextFile(name, 1)
      [] name = "b.pdf" -> ProcessPdfFile(name, 2)
      [] OTHER -> <<>>

\* process_database: one document per row, no file and no chunk key
ProcessDatabase(nrows) ==
    [r \in 1..nrows |-> [source_type |-> "database", query |-> "select"]]

\* the metadata a caller may pass to add_documents
CallerMetadata ==
    {EmptyMap,
     [document_id |-> "caller-id"],
     [source_type |-> "caller-type"],
     [relevance |-> 5]}

(* ------------------------- add_documents ------------------------------ *)
\* the units of one add_documents call as stored: source_type and
\* document_id are stamped, then doc.metadata.update(metadata)
StampedUnits(documents, source_type, metadata, n) ==
    [i \in {UnitId(n, k - 1) : k \in DOMAIN documents} |->
        LET k == CHOOSE k \in DOMAIN documents : UnitId(n, k - 1) = i
        IN  metadata @@ [source_type |-> source_type, document_id |-> DocId(n)]
                     @@ documents[k]]

\* self.document_metadata[doc_id] = {"source_type": ..., **metadata}
RegistryEntry(source_type, metadata) == metadata @@ [source_type |-> source_type]

\* add_documents on engine e; upsert_ok: vector_store.add_documents returns,
\* save_ok: the registry file is written.  The result: the engine, the index,
\* the file, and whether the call raised.
AddDocuments(e, documents, source_type, metadata, upsert_ok, save_ok) ==
    LET n   == next_uuid + 1
        reg == (DocId(n) :> RegistryEntry(source_type, metadata)) @@ e.document_metadata
        e1  == [e EXCEPT !.document_metadata = reg, !.latest_document_id = DocId(n)]
    IN  IF ~upsert_ok
        THEN [engine |-> e1, index |-> index, disk |-> disk_metadata, raised |-> TRUE]
        ELSE [engine |-> e1,
              index  |-> Upsert(index, StampedUnits(documents, source_type, metadata, n)),
              disk   |-> IF save_ok THEN reg ELSE disk_metadata,
              raised |-> FALSE]
(* ---------------------- _cleanup_web_results -------------------------- *)
\* the eviction with its filter inverted: it deletes the documents to keep
CleanupDeletesKept(web, idx, store_ok) ==
    IF web = {} \/ ~store_ok THEN [web |-> web, index |-> idx]
    ELSE [web |-> {}, index |-> Delete(idx, DOMAIN idx \ web)]

\* _cleanup_web_results on the tracker web and the collection idx; store_ok:
\* the calls on the vector store return.  An exception is caught and logged,
\* and then the tracker is not cleared.
CleanupWebResults(web, idx, store_ok) ==
    IF web = {} THEN [web |-> web, index |-> idx]
    ELSE IF ~store_ok THEN [web |-> web, index |-> idx]
    ELSE LET docs_to_keep == DOMAIN idx \ web
         IN  [web   |-> {},
              index |-> IF docs_to_keep # {} THEN Delete(idx, web) ELSE idx]

(* ------------------------- ingest_web_page ---------------------------- *)
\* the documents of a page of n chunks: no source_type, no document_id
WebUnits(url, n) ==
    [i \in {WebId(url, k) : k \in 0..(n - 1)} |->
        LET k == CHOOSE k \in 0..(n - 1) : WebId(url, k) = i
        IN  [source |-> "web", url |-> url, chunk |-> k, id |-> i]]

WebOutcomes == {"ok", "fetch_failed", "upsert_failed"}

\* ingest_web_page(url) on engine e: the eviction, the fetch, the split into
\* n chunks, the upsert with explicit ids, the tracker update
IngestWebPage(e, url, n, cleanup_ok, outcome) ==
    LET c == CleanupWebResults(e.current_web_ids, index, cleanup_ok)
        e1 == [e EXCEPT !.current_web_ids = c.web]
        new == WebUnits(url, n)
    IN  IF outcome # "ok"
        THEN [engine |-> e1, index |-> c.index, value |-> FALSE, ids |-> {}]
        ELSE [engine |-> [e1 EXCEPT !.current_web_ids = c.web \cup DOMAIN new],
              index  |-> Upsert(c.index, new),
              value  |-> TRUE,
              ids    |-> DOMAIN new]

(* ------------------------- RAGEngine.query ---------------------------- *)
\* the units a retriever with this filter may return (Chroma "where": exact
\* match on every key of the filter)
Matches(meta, filter) ==
    \A k \in DOMAIN filter : k \in DOMAIN meta /\ meta[k] = filter[k]

Eligible(filter) == {i \in IndexIds : Matches(index[i], filter)}

\* what the MMR search may return: min(k, candidates) units in some order
Retrievals(filter) ==
    LET c == Eligible(filter) IN Arrangements(c, Min(K, Cardinality(c)))

\* chunk_id = f"{doc.metadata.get('file', '')}_{doc.metadata.get('chunk', '')}"
ChunkId(meta) == Get(meta, "file", "") \o "_" \o FmtOptInt(meta, "chunk")

\* source_info of one kept document
SourceInfo(meta, registry) ==
    LET base == [file      |-> Get(meta, "file", ""),
                 chunk     |-> OptInt(meta, "chunk"),
                 page      |-> OptInt(meta, "page"),
                 relevance |-> Get(meta, "relevance", DefaultRelevance)]
        doc_id == Get(meta, "document_id", None)
    IN  IF doc_id # None /\ doc_id \in DOMAIN registry
        THEN base @@ [metadata |-> registry[doc_id]]
        ELSE base

RECURSIVE ProcessSourcesNoSeen(_, _, _, _)
\* the loop without seen_chunks.add(chunk_id): nothing is ever a duplicate
ProcessSourcesNoSeen(docs, seen, acc, registry) ==
    IF docs = <<>> THEN acc
    ELSE ProcessSourcesNoSeen(Tail(docs), seen,
                              Append(acc, SourceInfo(Head(docs), registry)), registry)

RECURSIVE ProcessSources(_, _, _, _)
\* the loop over result["source_documents"]: docs are metadata records, seen
\* is seen_chunks, acc the sources appended so far
ProcessSources(docs, seen, acc, registry) ==
    IF docs = <<>> THEN acc
    ELSE LET chunk_id == ChunkId(Head(docs))
         IN  IF chunk_id \notin seen
             THEN ProcessSources(Tail(docs), seen \cup {chunk_id},
                                 Append(acc, SourceInfo(Head(docs), registry)), registry)
             ELSE ProcessSources(Tail(docs), seen, acc, registry)

RECURSIVE SumRelevance(_)
SumRelevance(sources) ==
    IF sources = <<>> THEN 0
    ELSE Get(Head(sources), "relevance", 0) + SumRelevance(Tail(sources))

\* a float as the fraction num/den of tenths
Zero == [num |-> 0, den |-> 1]

\* the response with a confidence over every source document, the dropped
\* duplicates included
FormatResponseAllDocs(answer, docs, registry) ==
    LET sources == ProcessSources(docs, {}, <<>>, registry)
        all     == ProcessSourcesNoSeen(docs, {}, <<>>, registry)
    IN  IF Len(sources) > 0
        THEN [answer |-> answer, sources |-> sources,
              confidence |-> [num |-> SumRelevance(all), den |-> Len(all)]]
        ELSE [answer |-> IF answer = "" THEN NO_RELEVANT_MSG ELSE answer,
              sources |-> sources,
              confidence |-> Zero]

\* the response for a model answer and its source documents
FormatResponse(answer, docs, registry) ==
    LET sources == ProcessSources(docs, {}, <<>>, registry)
    IN  IF Len(sources) > 0
        THEN [answer |-> answer, sources |-> sources,
              confidence |-> [num |-> SumRelevance(sources), den |-> Len(sources)]]
        ELSE [answer |-> IF answer = "" THEN NO_RELEVANT_MSG ELSE answer,
              sources |-> sources,
              confidence |-> Zero]

\* the early return of query for {"latest": true} with no latest document
ShortCircuit == [answer |-> NO_DOCUMENTS_MSG, sources |-> <<>>]

\* query returns early: {"latest": true} and no latest document id
ShortCircuits(e, latest) == latest /\ e.latest_document_id = None

\* source_filter after the "latest" rewrite (no filter: the empty mapping)
ResolveFilter(e, latest) ==
    IF latest THEN [document_id |-> e.latest_document_id] ELSE EmptyMap

\* query with the turn saved before the chain is invoked: a failed call
\* leaves its question in the memory
RAGQueryRecordsFailure(e, question, latest, answer, llm_ok, docs) ==
    LET e1 == [e EXCEPT !.memory = Append(@, <<question, answer>>)]
    IN  IF ShortCircuits(e, latest)
        THEN [engine |-> e, raised |-> FALSE, value |-> ShortCircuit]
        ELSE IF ~llm_ok
        THEN [engine |-> e1, raised |-> TRUE, value |-> None]
        ELSE [engine |-> e1,
              raised |-> FALSE,
              value  |-> FormatResponse(answer, [i \in DOMAIN docs |-> index[docs[i]]],
                                        e.document_metadata)]

\* query with the early return saved as a turn of the conversation
RAGQueryRecordsShortCircuit(e, question, latest, answer, llm_ok, docs) ==
    LET e1 == [e EXCEPT !.memory = Append(@, <<question, answer>>)]
    IN  IF ShortCircuits(e, latest)
        THEN [engine |-> e1, raised |-> FALSE, value |-> ShortCircuit]
        ELSE IF ~llm_ok
        THEN [engine |-> e, raised |-> TRUE, value |-> None]
        ELSE [engine |-> e1,
              raised |-> FALSE,
              value  |-> FormatResponse(answer, [i \in DOMAIN docs |-> index[docs[i]]],
                                        e.document_metadata)]

\* RAGEngine.query on engine e: llm_ok says whether chain.ainvoke returns,
\* answer is the model's text and docs the ids of result["source_documents"].
\* The chain saves the turn to its memory when it returns.
RAGQuery(e, question, latest, answer, llm_ok, docs) ==
    IF ShortCircuits(e, latest)
    THEN [engine |-> e, raised |-> FALSE, value |-> ShortCircuit]
    ELSE IF ~llm_ok
    THEN [engine |-> e, raised |-> TRUE, value |-> None]
    ELSE [engine |-> [e EXCEPT !.memory = Append(@, <<question, answer>>)],
          raised |-> FALSE,
          value  |-> FormatResponse(answer, [i \in DOMAIN docs |-> index[docs[i]]],
                                    e.document_metadata)]

(* ------------------------------ chat() -------------------------------- *)
\* source_info of chat() for one source of the engine's response
ChatSource(source, registry) ==
    IF Get(source, "source_type", None) = "web"
    THEN [type |-> "web", url |-> Get(source, "url", ""),
          title |-> Get(source, "title", ""),
          relevance |-> Get(source, "relevance", DefaultRelevance)]
    ELSE LET base == [type |-> "document",
                      file |-> Get(source, "file", Get(source, "source", "")),
                      page |-> Get(source, "page", Get(source, "page_number", <<"str", "">>)),
                      document_id |-> Get(source, "document_id", ""),
                      relevance |-> Get(source, "relevance", DefaultRelevance)]
         IN  IF Get(source, "document_id", None) \in DOMAIN registry
             THEN base @@ [metadata |-> registry[source.document_id]]
             ELSE base

\* formatted_response of chat() for the engine's response
ChatFormat(response, registry) ==
    LET sources == IF "sources" \in DOMAIN response
                   THEN [i \in DOMAIN response.sources |->
                            ChatSource(response.sources[i], registry)]
                   ELSE <<>>
    IN  IF Len(sources) = 0
        THEN [answer |-> NO_RELEVANT_MSG, sources |-> sources, confidence |-> Zero]
        ELSE [answer |-> response.answer, sources |-> sources]

\* a clear that also forgets the web ids of the tracker
ClearMemoryAndTracker(e) == [e EXCEPT !.memory = <<>>, !.current_web_ids = {}]

\* RAGEngine.clear_memory: self.memory.clear()
ClearMemory(e) == [e EXCEPT !.memory = <<>>]

\* chat() on engine e: the engine's query, then the formatting
Chat(e, question, latest, answer, llm_ok, docs) ==
    LET r == RAGQuery(e, question, latest, answer, llm_ok, docs)
    IN  IF r.raised THEN r
        ELSE [r EXCEPT !.value = ChatFormat(r.value, e.document_metadata)]

(* -------------------- web_loader.process_webpage ---------------------- *)
\* the pages of a site, and a page of another domain
StartUrl == "http://d/s"
ExternalUrl == "http://x/"
CrawlUrls == {StartUrl, "http://d/a", "http://d/b", "http://d/c", ExternalUrl}

\* urlparse(url).netloc
Netloc(url) == IF url = ExternalUrl THEN "x" ELSE "d"

\* the links a site may have: a diamond, a path, a cycle back to the start,
\* a page that links to itself, a link that leaves the domain
CandidateLinks ==
    {<<StartUrl, "http://d/a">>, <<StartUrl, "http://d/b">>,
     <<"http://d/a", "http://d/b">>, <<"http://d/b", "http://d/c">>,
     <<"http://d/c", StartUrl>>, <<"http://d/a", "http://d/a">>,
     <<StartUrl, ExternalUrl>>}

\* the sites: page -> the absolute urls of its anchors
Sites ==
    {[p \in CrawlUrls |-> {e[2] : e \in {x \in E : x[1] = p}}] : E \in SUBSET CandidateLinks}

\* list(internal_links) iterates a set: the order is any; here the links of
\* every page come in the order of one ranking of the pages
Rankings ==
    {r \o <<StartUrl, ExternalUrl>> :
        r \in Arrangements({"http://d/a", "http://d/b", "http://d/c"}, 3)}

\* the pages whose fetch or parse raises
FailingPages == {{}, {"http://d/a"}, {"http://d/b"}}

\* get_internal_links(soup, base_url), as the list that is iterated
GetInternalLinks(site, url) ==
    SelectSeq(site.ranking,
              LAMBDA l : l \in site.links[url] /\ Netloc(l) = Netloc(url))

\* a crawl so far: visited_urls, the fetches as <<url, max_depth of the
\* call>>, and the pages whose documents are in the returned list
NoCrawl == [visited |-> {}, fetched |-> <<>>, documents |-> <<>>]

RECURSIVE ProcessWebpage(_, _, _, _)
RECURSIVE ProcessLinks(_, _, _, _)

\* process_webpage without visited_urls.add(url)
ProcessWebpageForgets(site, url, max_depth, st) ==
    IF url \in st.visited THEN st
    ELSE LET st1 == [st EXCEPT !.fetched = Append(@, <<url, max_depth>>)]
         IN  IF url \in site.fails THEN st1
             ELSE LET st2 == [st1 EXCEPT !.documents = Append(@, url)]
                  IN  IF max_depth > 1
                      THEN ProcessLinks(site, GetInternalLinks(site, url), max_depth, st2)
                      ELSE st2

\* the loop "for link in internal_links" of a call with this max_depth
ProcessLinks(site, links, max_depth, st) ==
    IF links = <<>> THEN st
    ELSE LET st1 == IF Head(links) \notin st.visited
                    THEN ProcessWebpage(site, Head(links), max_depth - 1, st)
                    ELSE st
         IN  ProcessLinks(site, Tail(links), max_depth, st1)

\* process_webpage(url, max_depth=max_depth, visited_urls=st.visited): a page
\* that raises returns no document, and its links are not followed
ProcessWebpage(site, url, max_depth, st) ==
    IF url \in st.visited THEN st
    ELSE LET st1 == [st EXCEPT !.visited = @ \cup {url},
                               !.fetched = Append(@, <<url, max_depth>>)]
         IN  IF url \in site.fails THEN st1
             ELSE LET st2 == [st1 EXCEPT !.documents = Append(@, url)]
                  IN  IF max_depth > 1
                      THEN ProcessLinks(site, GetInternalLinks(site, url), max_depth, st2)
                      ELSE st2

(* ----------------------------- history -------------------------------- *)
IsWebUnit(meta) == Get(meta, "source", None) = "web"

WebUnitIds == {i \in IndexIds : IsWebUnit(index[i])}

NonWebUnits == [i \in IndexIds \ WebUnitIds |-> index[i]]

NoWeb == [url |-> None, ids |-> {}, batch |-> {}, uuids |-> 0]
NoAdd == [n |-> 0, doc |-> None, units |-> {}]

\* the requests the event loop runs at the same time
Tasks == {1, 2}

(* ------------------------------- Init --------------------------------- *)
\* a fresh persistence directory and no engine instance
Init ==
    /\ engine_up = FALSE
    /\ current_web_ids = {}
    /\ latest_document_id = None
    /\ document_metadata = EmptyMap
    /\ memory = <<>>
    /\ index = EmptyMap
    /\ disk_metadata = EmptyMap
    /\ next_uuid = 0
    /\ last = [op |-> "init"]
    /\ last_add = NoAdd
    /\ last_web = NoWeb
    /\ ever_ingested = FALSE
    /\ faults = 0
    /\ upload = [pc |-> "idle"]
    /\ inflight = [t \in Tasks |-> [pc |-> "idle"]]
    /\ retriever = EmptyMap
    /\ asking = [t \in Tasks |-> [pc |-> "idle"]]

(* ------------------------------ actions ------------------------------- *)
\* the calls on the environment that are not ok have failed
Failing(oks) == faults' = faults + Cardinality({i \in DOMAIN oks : ~oks[i]})

\* a call that runs from its start to its return with no other request in
\* between: no request is suspended, and the retriever it assigns is read by
\* no other call
Idle == UNCHANGED <<upload, inflight, retriever, asking>>

\* reset_rag_engine(): the singleton is dropped, and its fields with it
ResetRagEngine ==
    /\ engine_up' = FALSE
    /\ current_web_ids' = {}
    /\ latest_document_id' = None
    /\ document_metadata' = EmptyMap
    /\ memory' = <<>>
    /\ last' = [op |-> "reset"]
    /\ UNCHANGED <<index, disk_metadata, next_uuid, last_add, last_web, ever_ingested,
                   faults>>

\* the effects of one add_documents call r, which drew uuid number
\* next_uuid + 1, for the count documents of the source src
ApplyAdd(r, op, src, count) ==
    LET units == DOMAIN r.index \ IndexIds
        done  == [n |-> next_uuid + 1, doc |-> DocId(next_uuid + 1), units |-> units]
    IN  /\ SetEngine(r.engine)
        /\ index' = r.index
        /\ disk_metadata' = r.disk
        /\ next_uuid' = next_uuid + 1
        /\ last' = [op |-> op, raised |-> r.raised, value |-> ~r.raised,
                    doc |-> done.doc, units |-> units,
                    src |-> src, count |-> count, parsed |-> TRUE]
        /\ last_add' = IF r.raised THEN last_add ELSE done
        /\ ever_ingested' = (ever_ingested \/ units # {})
        /\ UNCHANGED last_web

\* ingest_file(path): process_file, then add_documents with the file's
\* metadata when there are documents; every exception is turned into False
IngestFile(name, parse_ok, upsert_ok, save_ok) ==
    LET documents == ProcessFile(name)
        reached == parse_ok /\ Len(documents) > 0
    IN  /\ Failing(<<parse_ok, upsert_ok, save_ok>>)
        \* a call that is not reached cannot fail
        /\ ~reached => (upsert_ok /\ save_ok)
        /\ ~upsert_ok => save_ok
        /\ IF reached
           THEN ApplyAdd(AddDocuments(GetRagEngine, documents, "file",
                                      [file |-> name], upsert_ok, save_ok),
                         "ingest_file", name, Len(documents))
           ELSE /\ last' = [op |-> "ingest_file", raised |-> FALSE, value |-> FALSE,
                            doc |-> None, units |-> {},
                            src |-> name, count |-> 0, parsed |-> parse_ok]
                /\ UNCHANGED <<engine_up, current_web_ids, latest_document_id,
                               document_metadata, memory, index, disk_metadata,
                               next_uuid, last_add, last_web, ever_ingested>>

\* get_rag_engine().add_documents(documents, source_type, metadata), as the
\* ingestion endpoints call it with the caller's metadata
AddDocumentsCall(documents, source_type, metadata, upsert_ok, save_ok) ==
    /\ Failing(<<upsert_ok, save_ok>>)
    /\ ~upsert_ok => save_ok
    /\ ApplyAdd(AddDocuments(GetRagEngine, documents, source_type, metadata,
                             upsert_ok, save_ok),
                "add_documents", source_type, Len(documents))

\* ingest_web_page(url) for a page that splits into n chunks
IngestWebPageCall(url, n, cleanup_ok, outcome) ==
    LET r == IngestWebPage(GetRagEngine, url, n, cleanup_ok, outcome)
    IN  /\ Failing(<<cleanup_ok, outcome = "ok">>)
        \* with an empty tracker the eviction calls nothing
        /\ GetRagEngine.current_web_ids = {} => cleanup_ok
        /\ SetEngine(r.engine)
        /\ index' = r.index
        /\ last' = [op |-> "web", raised |-> FALSE, value |-> r.value, url |-> url,
                    ids |-> r.ids, prev_web |-> last_web, outcome |-> outcome]
        /\ last_web' = IF r.value
                       THEN [url |-> url, ids |-> r.engine.current_web_ids,
                             batch |-> r.ids, uuids |-> next_uuid]
                       ELSE last_web
        /\ ever_ingested' = (ever_ingested \/ r.ids # {})
        /\ UNCHANGED <<disk_metadata, next_uuid, last_add>>

\* the record of a question: its inputs, what was retrieved, what came back
Asked(op, e, question, latest, answer, llm_ok, docs, r) ==
    [op |-> op, raised |-> r.raised, value |-> r.value, latest |-> latest,
     question |-> question, failed |-> ~llm_ok, llm |-> answer, short |-> ShortCircuits(e, latest), docs |-> docs,
     eligible |-> IF ShortCircuits(e, latest) THEN {}
                  ELSE Eligible(ResolveFilter(e, latest)),
     after_add |-> (last.op \in {"ingest_file", "add_documents"} /\ last.value)]

AskFrame == UNCHANGED <<index, disk_metadata, next_uuid, last_add, last_web, ever_ingested>>

\* the source documents a question may get on engine e
SourceDocuments(e, latest, llm_ok) ==
    IF ShortCircuits(e, latest) \/ ~llm_ok THEN {<<>>}
    ELSE Retrievals(ResolveFilter(e, latest))

\* get_rag_engine().query(question, source_filter)
QueryCall(question, latest, answer, llm_ok) ==
    LET e == GetRagEngine
    IN  \E docs \in SourceDocuments(e, latest, llm_ok) :
          LET r == RAGQuery(e, question, latest, answer, llm_ok, docs)
          IN  /\ Failing(<<llm_ok>>)
              /\ ShortCircuits(e, latest) => llm_ok
              /\ SetEngine(r.engine)
              /\ last' = Asked("query", e, question, latest, answer, llm_ok, docs, r)
              /\ AskFrame

\* chat(question, source_filter)
ChatCall(question, latest, answer, llm_ok) ==
    LET e == GetRagEngine
    IN  \E docs \in SourceDocuments(e, latest, llm_ok) :
          LET r == Chat(e, question, latest, answer, llm_ok, docs)
          IN  /\ Failing(<<llm_ok>>)
              /\ ShortCircuits(e, latest) => llm_ok
              /\ SetEngine(r.engine)
              /\ last' = Asked("chat", e, question, latest, answer, llm_ok, docs, r)
              /\ AskFrame

\* clear_chat_history(): get_rag_engine().chain.memory.clear()
ClearChatHistory ==
    /\ SetEngine(ClearMemory(GetRagEngine))
    /\ last' = [op |-> "clear", before |-> Len(GetRagEngine.memory)]
    /\ AskFrame
    /\ UNCHANGED faults

\* process_webpage(StartUrl, max_depth=max_depth) on a site
ProcessWebpageCall(links, ranking, fails, max_depth) ==
    LET site == [links |-> links, ranking |-> ranking, fails |-> fails]
        r    == ProcessWebpage(site, StartUrl, max_depth, NoCrawl)
    IN  /\ last' = [op |-> "crawl", site |-> site, max_depth |-> max_depth,
                    visited |-> r.visited, fetched |-> r.fetched,
                    documents |-> r.documents]
        /\ UNCHANGED <<engine_up, current_web_ids, latest_document_id,
                       document_metadata, memory, index, disk_metadata, next_uuid,
                       last_add, last_web, ever_ingested, faults>>

\* what an action on the web ingestions leaves alone
WebFrame == UNCHANGED <<memory, latest_document_id, document_metadata, disk_metadata,
                        next_uuid, last_add, upload, retriever, asking>>

\* ingest_web_page(url) of task t, up to "async with session.get(url)": the
\* engine is fetched and the previous web batch evicted
WebStart(t, url, n, cleanup_ok) ==
    LET e == GetRagEngine
        c == CleanupWebResults(e.current_web_ids, index, cleanup_ok)
    IN  /\ inflight[t].pc \in {"idle", "done"}
        /\ Failing(<<cleanup_ok>>)
        /\ e.current_web_ids = {} => cleanup_ok
        /\ engine_up' = TRUE
        /\ current_web_ids' = c.web
        /\ index' = c.index
        /\ inflight' = [inflight EXCEPT ![t] = [pc |-> "get", url |-> url, n |-> n]]
        /\ UNCHANGED <<last, last_web, ever_ingested>>
        /\ WebFrame

\* the response of task t arrives: a status other than 200, or an error of
\* the request, ends the call with False; else it awaits response.text()
WebResponse(t, ok) ==
    /\ inflight[t].pc = "get"
    /\ Failing(<<ok>>)
    /\ inflight' = [inflight EXCEPT ![t] =
                       IF ok THEN [@ EXCEPT !.pc = "text"]
                       ELSE [pc |-> "done", url |-> @.url, value |-> FALSE, ids |-> {}]]
    /\ last' = IF ok THEN last
               ELSE [op |-> "web", raised |-> FALSE, value |-> FALSE, url |-> inflight[t].url,
                     ids |-> {}, prev_web |-> last_web, outcome |-> "fetch_failed"]
    /\ UNCHANGED <<engine_up, current_web_ids, index, last_web, ever_ingested>>
    /\ WebFrame

\* the body of task t arrives: the page is split, its units are added under
\* their ids, the tracker is updated with them, and the call returns True;
\* an exception of the read or of the store ends it with False
WebFinish(t, outcome) ==
    LET new == WebUnits(inflight[t].url, inflight[t].n)
        ok  == outcome = "ok"
    IN  /\ inflight[t].pc = "text"
        /\ Failing(<<ok>>)
        /\ engine_up' = TRUE
        /\ current_web_ids' = IF ok THEN GetRagEngine.current_web_ids \cup DOMAIN new
                               ELSE GetRagEngine.current_web_ids
        /\ index' = IF ok THEN Upsert(index, new) ELSE index
        /\ inflight' = [inflight EXCEPT ![t] =
                           [pc |-> "done", url |-> @.url, value |-> ok,
                            ids |-> IF ok THEN DOMAIN new ELSE {}]]
        /\ last' = [op |-> "web", raised |-> FALSE, value |-> ok, url |-> inflight[t].url,
                    ids |-> IF ok THEN DOMAIN new ELSE {}, prev_web |-> last_web,
                    outcome |-> outcome]
        /\ last_web' = IF ok
                       THEN [url |-> inflight[t].url, ids |-> current_web_ids',
                             batch |-> DOMAIN new, uuids |-> next_uuid]
                       ELSE last_web
        /\ ever_ingested' = (ever_ingested \/ (ok /\ DOMAIN new # {}))
        /\ WebFrame

\* what a step of a query leaves alone
QueryFrame == UNCHANGED <<index, disk_metadata, next_uuid, last_add, last_web,
                          ever_ingested, upload, inflight>>

\* query(question, source_filter) of task t, up to the first await inside
\* chain.ainvoke: the filter is resolved and chain.retriever is assigned.
\* With an empty chat history the chain goes straight to the retriever;
\* with turns in the history it first awaits the model for a standalone
\* question.
QueryBegin(t, question, latest) ==
    LET e      == GetRagEngine
        filter == ResolveFilter(e, latest)
        mine   == [question |-> question, latest |-> latest, filter |-> filter]
    IN  /\ asking[t].pc \in {"idle", "done"}
        /\ SetEngine(e)
        /\ IF ShortCircuits(e, latest)
           THEN /\ asking' = [asking EXCEPT ![t] =
                                 mine @@ [pc |-> "done", docs |-> <<>>, raised |-> FALSE]]
                /\ last' = Asked("query", e, question, latest, "", TRUE, <<>>,
                                 RAGQuery(e, question, latest, "", TRUE, <<>>))
                /\ UNCHANGED retriever
           ELSE /\ retriever' = filter
                /\ IF e.memory = <<>>
                   THEN \E docs \in Retrievals(filter) :
                           asking' = [asking EXCEPT ![t] =
                                         mine @@ [pc |-> "answer", docs |-> docs]]
                   ELSE asking' = [asking EXCEPT ![t] = mine @@ [pc |-> "condense"]]
                /\ UNCHANGED last
        /\ UNCHANGED faults
        /\ QueryFrame

\* the standalone question of task t is back (llm_ok), and the chain
\* retrieves with self.retriever as it is now
QueryRetrieve(t, llm_ok) ==
    LET mine == asking[t]
    IN  /\ mine.pc = "condense"
        /\ Failing(<<llm_ok>>)
        /\ IF llm_ok
           THEN /\ \E docs \in Retrievals(retriever) :
                      asking' = [asking EXCEPT ![t] =
                                    [mine EXCEPT !.pc = "answer"] @@ [docs |-> docs]]
                /\ UNCHANGED last
           ELSE /\ asking' = [asking EXCEPT ![t] =
                                 [mine EXCEPT !.pc = "done"]
                                    @@ [docs |-> <<>>, raised |-> TRUE]]
                /\ last' = Asked("query", GetRagEngine, mine.question, mine.latest,
                                 "", FALSE, <<>>,
                                 RAGQuery(GetRagEngine, mine.question, mine.latest,
                                          "", FALSE, <<>>))
        /\ UNCHANGED <<engine_up, current_web_ids, latest_document_id,
                       document_metadata, memory, retriever>>
        /\ QueryFrame

\* the answer of task t is back (llm_ok): the turn is saved and the response
\* formatted from the documents the chain retrieved
QueryEnd(t, answer, llm_ok) ==
    LET mine == asking[t]
        e    == GetRagEngine
        r    == RAGQuery(e, mine.question, mine.latest, answer, llm_ok, mine.docs)
    IN  /\ mine.pc = "answer"
        /\ Failing(<<llm_ok>>)
        /\ SetEngine(r.engine)
        /\ asking' = [asking EXCEPT ![t] =
                         [mine EXCEPT !.pc = "done"] @@ [raised |-> r.raised]]
        /\ last' = Asked("query", e, mine.question, mine.latest, answer, llm_ok,
                         mine.docs, r)
        /\ UNCHANGED retriever
        /\ QueryFrame

\* the lists of files of an upload request
UploadLists ==
    UNION {[1..n -> Files] : n \in 1..MaxUploads}

\* upload_files(files), up to the first await file.read(): results = []
UploadFilesBegin(files) ==
    /\ upload.pc # "loop"
    /\ upload' = [pc |-> "loop", request |-> files, files |-> files,
                  results |-> <<>>, returned |-> <<>>, raised |-> FALSE]
    /\ UNCHANGED <<engine_up, current_web_ids, latest_document_id,
                   document_metadata, memory, index, disk_metadata, next_uuid,
                   last, last_add, last_web, ever_ingested, faults,
                   inflight, retriever, asking>>

\* one turn of the loop of upload_files: the file is read and written to
\* UPLOAD_DIR (write_ok), ingest_file is awaited and its value dropped, and
\* "success" is appended; after the last file the handler returns.  An
\* exception of the read or the write ends the request with status 500.
UploadFilesStep(write_ok, parse_ok, upsert_ok, save_ok) ==
    /\ upload.pc = "loop"
    /\ IF write_ok
       THEN /\ IngestFile(Head(upload.files), parse_ok, upsert_ok, save_ok)
            /\ upload' = [upload EXCEPT
                             !.files = Tail(@),
                             !.results = Append(@, [filename |-> Head(upload.files),
                                                    status |-> "success"]),
                             !.returned = Append(@, last'.value),
                             !.pc = IF Tail(upload.files) = <<>> THEN "done" ELSE "loop"]
       ELSE /\ parse_ok /\ upsert_ok /\ save_ok
            /\ Failing(<<write_ok>>)
            /\ upload' = [upload EXCEPT !.pc = "done", !.raised = TRUE]
            /\ UNCHANGED <<engine_up, current_web_ids, latest_document_id,
                           document_metadata, memory, index, disk_metadata,
                           next_uuid, last, last_add, last_web, ever_ingested>>
    /\ UNCHANGED <<inflight, retriever, asking>>

(* --------------------------- specifications --------------------------- *)
\* the part of the behaviours that is explored
Within(max_docs, max_units) ==
    /\ next_uuid' <= max_docs
    /\ Cardinality(DOMAIN index') <= max_units
    /\ Len(memory') <= MaxTurns
    /\ faults' <= MaxFaults

\* ... with its own bound on the turns of the conversation
WithinTurns(max_docs, max_units, max_turns) ==
    /\ next_uuid' <= max_docs
    /\ Cardinality(DOMAIN index') <= max_units
    /\ Len(memory') <= max_turns
    /\ faults' <= MaxFaults

\* every operation, with every failure of the environment
Next ==
    \/ ResetRagEngine /\ Idle
    \/ \E name \in Files, parse_ok, upsert_ok, save_ok \in BOOLEAN :
          IngestFile(name, parse_ok, upsert_ok, save_ok) /\ Within(MaxDocs, MaxUnits) /\ Idle
    \/ \E n \in 0..1, metadata \in CallerMetadata, upsert_ok, save_ok \in BOOLEAN :
          /\ AddDocumentsCall(ProcessDatabase(n), "database", metadata, upsert_ok, save_ok)
          /\ Within(MaxDocs, MaxUnits) /\ Idle
    \/ \E url \in Urls, n \in 0..MaxChunks, cleanup_ok \in BOOLEAN, outcome \in WebOutcomes :
          IngestWebPageCall(url, n, cleanup_ok, outcome) /\ Within(MaxDocs, MaxUnits) /\ Idle
    \/ \E q \in Questions, latest \in BOOLEAN, answer \in Answers, llm_ok \in BOOLEAN :
          QueryCall(q, latest, answer, llm_ok) /\ Within(MaxDocs, MaxUnits) /\ Idle
    \/ \E q \in Questions, latest \in BOOLEAN, answer \in Answers, llm_ok \in BOOLEAN :
          ChatCall(q, latest, answer, llm_ok) /\ Within(MaxDocs, MaxUnits) /\ Idle
    \/ ClearChatHistory /\ Idle

Spec == Init /\ [][Next]_vars

\* the ingestion side alone: uploads, web pages, restarts, no questions
NextWeb ==
    \/ ResetRagEngine /\ Idle
    \/ \E name \in {"a.txt", "empty.txt"}, parse_ok, upsert_ok, save_ok \in BOOLEAN :
          IngestFile(name, parse_ok, upsert_ok, save_ok) /\ Within(MaxDocs, MaxUnits) /\ Idle
    \/ \E upsert_ok, save_ok \in BOOLEAN :
          /\ AddDocumentsCall(ProcessDatabase(1), "database", EmptyMap, upsert_ok, save_ok)
          /\ Within(MaxDocs, MaxUnits) /\ Idle
    \/ \E url \in Urls, n \in 0..MaxChunks, cleanup_ok \in BOOLEAN, outcome \in WebOutcomes :
          IngestWebPageCall(url, n, cleanup_ok, outcome) /\ Within(MaxDocs, MaxUnits) /\ Idle
    \/ ClearChatHistory /\ Idle

SpecWeb == Init /\ [][NextWeb]_vars

\* a corpus is loaded by ingestions that succeed, then questions are asked
Loading == last.op \in {"init", "ingest_file", "add_documents", "web"}

NextCite ==
    \/ \E name \in {"a.txt", "b.pdf"} :
          Loading /\ IngestFile(name, TRUE, TRUE, TRUE) /\ Within(MaxCited, MaxCited) /\ Idle
    \/ /\ Loading
       /\ AddDocumentsCall(ProcessDatabase(2), "database", EmptyMap, TRUE, TRUE)
       /\ Within(MaxCited, MaxCited) /\ Idle
    \/ \E url \in Urls :
          Loading /\ IngestWebPageCall(url, 1, TRUE, "ok") /\ Within(MaxCited, MaxCited) /\ Idle
    \/ \E q \in Questions, latest \in BOOLEAN, answer \in Answers :
          QueryCall(q, latest, answer, TRUE) /\ Within(MaxCited, MaxCited) /\ Idle
    \/ \E q \in Questions, latest \in BOOLEAN, answer \in Answers :
          ChatCall(q, latest, answer, TRUE) /\ Within(MaxCited, MaxCited) /\ Idle
    \/ ClearChatHistory /\ Idle

SpecCite == Init /\ [][NextCite]_vars

\* a corpus of database rows, some ingested with a relevance in the caller's
\* metadata, and a web page; then queries
NextConf ==
    \/ \E metadata \in {EmptyMap, [relevance |-> 5]} :
          /\ Loading
          /\ AddDocumentsCall(ProcessDatabase(1), "database", metadata, TRUE, TRUE)
          /\ Within(MaxCited, MaxCited) /\ Idle
    \/ /\ Loading
       /\ IngestWebPageCall("http://a", 1, TRUE, "ok")
       /\ Within(MaxCited, MaxCited) /\ Idle
    \/ \E q \in Questions, latest \in BOOLEAN, answer \in Answers :
          QueryCall(q, latest, answer, TRUE) /\ Within(MaxCited, MaxCited) /\ Idle

SpecConf == Init /\ [][NextConf]_vars

\* a conversation: questions that the model answers or fails to answer,
\* clears and restarts, over a corpus of one upload and one web page
NextMem ==
    \/ ResetRagEngine /\ Idle
    \/ IngestFile("a.txt", TRUE, TRUE, TRUE) /\ WithinTurns(MaxDocs, MaxUnits, MaxAsked) /\ Idle
    \/ /\ IngestWebPageCall("http://a", 1, TRUE, "ok")
       /\ WithinTurns(MaxDocs, MaxUnits, MaxAsked) /\ Idle
    \/ \E q \in FollowUps, latest \in BOOLEAN, llm_ok \in BOOLEAN :
          QueryCall(q, latest, "llm text", llm_ok) /\ WithinTurns(MaxDocs, MaxUnits, MaxAsked) /\ Idle
    \/ \E q \in FollowUps, latest \in BOOLEAN, llm_ok \in BOOLEAN :
          ChatCall(q, latest, "llm text", llm_ok) /\ WithinTurns(MaxDocs, MaxUnits, MaxAsked) /\ Idle
    \/ ClearChatHistory /\ Idle

SpecMem == Init /\ [][NextMem]_vars

\* one crawl, of any site, ranking, failing pages and depth
NextCrawl ==
    \E links \in Sites, ranking \in Rankings, fails \in FailingPages, d \in 1..MaxDepth :
       last.op = "init" /\ ProcessWebpageCall(links, ranking, fails, d) /\ Idle

SpecCrawl == Init /\ [][NextCrawl]_vars

\* upload requests of one or more files, one at a time, with every failure
\* of a file
NextUpload ==
    \/ \E files \in UploadLists : UploadFilesBegin(files)
    \/ \E write_ok, parse_ok, upsert_ok, save_ok \in BOOLEAN :
          /\ UploadFilesStep(write_ok, parse_ok, upsert_ok, save_ok)
          /\ Within(MaxUploads, 2 * MaxUploads)

SpecUpload == Init /\ [][NextUpload]_vars

\* web ingestions that run at the same time, after an upload or after none
NextRace ==
    \/ last.op = "init" /\ IngestFile("a.txt", TRUE, TRUE, TRUE)
          /\ Within(MaxDocs, MaxCited) /\ Idle
    \/ \E t \in Tasks, url \in Urls, n \in 0..MaxChunks, cleanup_ok \in BOOLEAN :
          WebStart(t, url, n, cleanup_ok) /\ Within(MaxDocs, MaxCited)
    \/ \E t \in Tasks, ok \in BOOLEAN :
          WebResponse(t, ok) /\ Within(MaxDocs, MaxCited)
    \/ \E t \in Tasks, outcome \in WebOutcomes :
          WebFinish(t, outcome) /\ Within(MaxDocs, MaxCited)

SpecRace == Init /\ [][NextRace]_vars

\* two uploads, then queries that run at the same time
NextAsk ==
    \/ /\ Loading
       /\ \A t \in Tasks : asking[t].pc = "idle"
       /\ IngestFile("a.txt", TRUE, TRUE, TRUE)
       /\ WithinTurns(MaxAsked, MaxAsked, MaxAsked + 1) /\ Idle
    \/ \E t \in Tasks, q \in Questions, latest \in BOOLEAN :
          QueryBegin(t, q, latest) /\ WithinTurns(MaxAsked, MaxAsked, MaxAsked + 1)
    \/ \E t \in Tasks, llm_ok \in BOOLEAN :
          QueryRetrieve(t, llm_ok) /\ WithinTurns(MaxAsked, MaxAsked, MaxAsked + 1)
    \/ \E t \in Tasks, llm_ok \in BOOLEAN :
          QueryEnd(t, "llm text", llm_ok) /\ WithinTurns(MaxAsked, MaxAsked, MaxAsked + 1)

SpecAsk == Init /\ [][NextAsk]_vars
(* ============================== claims ================================ *)
\* the last operation was ingest_web_page(B), it returned True, and the
\* successful web ingestion before it was of another URL A
WebAfterOtherWeb ==
    /\ last.op = "web"
    /\ last.value
    /\ last.prev_web.url \notin {None, last.url}

\* C1: after a successful ingest_web_page(B) that follows a successful
\* ingest_web_page(A), A # B, no unit whose id was in current_web_ids after A
\* is left in the vector index, whatever else the index holds.
C1_PreviousBatchEvicted ==
    (WebAfterOtherWeb /\ faults = 0 /\ last.ids # {}) =>
        last.prev_web.batch \cap IndexIds = {}

\* C2: a web ingestion, its eviction included, changes no unit that is not a
\* web unit, no registry entry (in memory or in the file) and not
\* latest_document_id.
C2_WebIngestionFrame ==
    [][last'.op = "web" =>
          /\ NonWebUnits' = NonWebUnits
          /\ document_metadata' = GetRagEngine.document_metadata
          /\ disk_metadata' = disk_metadata
          /\ latest_document_id' = GetRagEngine.latest_document_id]_vars

\* C2 happens: web page B was ingested after web page A, A's units were
\* evicted, and the units add_documents stored in between are all still there.
C2_Witness ==
    /\ WebAfterOtherWeb
    /\ last.prev_web.ids # {}
    /\ last.prev_web.ids \cap IndexIds = {}
    /\ last.ids # {}
    /\ last_add.n > last.prev_web.uuids
    /\ last_add.units # {}
    /\ last_add.units \subseteq DOMAIN NonWebUnits
    /\ latest_document_id = last_add.doc

\* C3: whenever an engine exists, the web units of the index are the units of
\* one ingest_web_page call, and their ids are exactly current_web_ids.
C3_OneTrackedWebBatch ==
    (engine_up /\ faults = 0) => /\ WebUnitIds = current_web_ids
                                 /\ WebUnitIds \subseteq last_web.batch

\* the last operation was a question that returned a response
Answered(ops) == last.op \in ops /\ ~last.raised

\* ... and no call of the run so far has failed
AnsweredClean(ops) == Answered(ops) /\ faults = 0

\* the metadata of the source documents of the last question, in order
Retrieved == [i \in DOMAIN last.docs |-> index[last.docs[i]]]

\* C4: a question with {"latest": true} right after add_documents returned
\* for document X retrieves only units whose document_id is X's generated
\* id, and every unit of X is a candidate of that retrieval.
C4_LatestSelectsTheNewDocument ==
    (AnsweredClean({"query", "chat"}) /\ last.latest /\ last.after_add) =>
        /\ \A i \in DOMAIN Retrieved :
              Get(Retrieved[i], "document_id", None) = last_add.doc
        /\ last_add.units \subseteq last.eligible

\* C5: query with {"latest": true} returns the fixed "no documents uploaded"
\* answer only when no unit was ever ingested into the persistence
\* directory: not after a restart, not after web ingestion alone.
C5_ShortCircuitOnlyIfNothingIngested ==
    (AnsweredClean({"query"}) /\ last.latest) =>
        ((last.value.answer = NO_DOCUMENTS_MSG) => ~ever_ingested)

\* no unit was ever committed and add_documents never ran
NothingIngested == ~ever_ingested /\ next_uuid = 0

\* C6: before any ingestion a question gets confidence 0.0 and the fixed
\* "no documents" message, from query and from chat, with or without the
\* latest filter.
C6_EmptyStateResponse ==
    (AnsweredClean({"query", "chat"}) /\ NothingIngested) =>
        /\ "confidence" \in DOMAIN last.value
        /\ last.value.confidence = Zero
        /\ last.value.answer = NO_DOCUMENTS_MSG

\* the (file, chunk) key of a unit
FileChunk(meta) == <<Get(meta, "file", ""), OptInt(meta, "chunk")>>

\* the positions of the source documents that are the first with their key
FirstOccurrences(docs) ==
    {i \in DOMAIN docs : \A j \in 1..(i - 1) : FileChunk(docs[j]) # FileChunk(docs[i])}

\* the n-th smallest element of the set of numbers S
Nth(S, n) == CHOOSE x \in S : Cardinality({y \in S : y < x}) = n - 1

\* C7: in a query response no two citations share their (file, chunk) key;
\* the citations are those of the source documents that are the first with
\* their key, in retrieval order.
C7_CitationsAreFirstOccurrences ==
    (Answered({"query"}) /\ ~last.short) =>
        LET sources == last.value.sources
            first   == FirstOccurrences(Retrieved)
        IN  /\ Len(sources) = Cardinality(first)
            /\ \A i \in DOMAIN sources :
                  /\ sources[i].file = Get(Retrieved[Nth(first, i)], "file", "")
                  /\ sources[i].chunk = OptInt(Retrieved[Nth(first, i)], "chunk")
                  /\ sources[i].page = OptInt(Retrieved[Nth(first, i)], "page")
            /\ \A i, j \in DOMAIN sources :
                  i # j => <<sources[i].file, sources[i].chunk>>
                              # <<sources[j].file, sources[j].chunk>>

\* C7 happens: a duplicate key was dropped between two kept citations
C7_Witness ==
    /\ Answered({"query"}) /\ ~last.short
    /\ Len(last.docs) >= 3
    /\ Len(last.value.sources) = 2
    /\ FirstOccurrences(Retrieved) = {1, 3}

\* the (file-or-url, page and chunk) key of a unit
FileOrUrl(meta) == IF "file" \in DOMAIN meta THEN meta.file ELSE Get(meta, "url", "")

CompositeKey(meta) == <<FileOrUrl(meta), OptInt(meta, "page"), OptInt(meta, "chunk")>>

\* C8: source documents that differ in file, in url or in their page/chunk
\* locator each get a citation of their own.
C8_DistinctLocatorsKeepTheirCitation ==
    (Answered({"query"}) /\ ~last.short) =>
        Len(last.value.sources) >=
            Cardinality({CompositeKey(Retrieved[i]) : i \in DOMAIN Retrieved})

\* C9: with no citation left, the answer is the fixed "no relevant
\* information" message only when the model's text is empty, otherwise the
\* model's text, with confidence 0.0, from query and from chat.
C9_ModelAnswerKeptWithoutCitations ==
    (AnsweredClean({"query", "chat"}) /\ ~last.short /\ ever_ingested
        /\ Len(last.value.sources) = 0) =>
        /\ last.value.answer = (IF last.llm = "" THEN NO_RELEVANT_MSG ELSE last.llm)
        /\ "confidence" \in DOMAIN last.value
        /\ last.value.confidence = Zero

\* C10: every response of query and of chat has the three fields answer,
\* sources and confidence.
C10_ResponseHasThreeFields ==
    AnsweredClean({"query", "chat"}) =>
        {"answer", "sources", "confidence"} \subseteq DOMAIN last.value

RECURSIVE RelevanceOver(_, _)
\* the sum of the relevance of the source documents at the positions S, a
\* document without a relevance counting as 1.0
RelevanceOver(docs, S) ==
    IF S = {} THEN 0
    ELSE LET i == CHOOSE i \in S : TRUE
         IN  Get(docs[i], "relevance", DefaultRelevance) + RelevanceOver(docs, S \ {i})

\* C11: when a query keeps at least one citation, its confidence is the mean
\* of the relevance of the kept citations (1.0 for a unit without relevance
\* metadata); the source documents dropped as duplicates do not count.
C11_ConfidenceIsMeanOfKept ==
    (Answered({"query"}) /\ ~last.short /\ Len(last.value.sources) > 0) =>
        LET first == FirstOccurrences(Retrieved)
            conf  == last.value.confidence
        IN  /\ conf.den > 0
            /\ conf.num * Cardinality(first) = RelevanceOver(Retrieved, first) * conf.den

\* C11 happens: two citations kept, one with and one without a relevance, and
\* a duplicate dropped whose relevance differs from the kept one's
C11_Witness ==
    /\ Answered({"query"}) /\ ~last.short
    /\ Len(last.docs) = 3
    /\ LET first == FirstOccurrences(Retrieved)
       IN  /\ Cardinality(first) = 2
           /\ \E i, k \in first, j \in DOMAIN Retrieved \ first :
                 /\ "relevance" \in DOMAIN Retrieved[i]
                 /\ "relevance" \notin DOMAIN Retrieved[k]
                 /\ FileChunk(Retrieved[j]) = FileChunk(Retrieved[i])
                 /\ "relevance" \notin DOMAIN Retrieved[j]
    /\ last.value.confidence = [num |-> 15, den |-> 2]

\* C12: when retrieval or the model fails during a question, the call raises
\* and the conversation memory is what it was; the memory changes only in a
\* call that got the model's response, by the one turn of that call.
C12_FailedQuestionLeavesMemory ==
    [][last'.op \in {"query", "chat"} =>
          /\ last'.failed => (last'.raised /\ memory' = memory)
          /\ memory' # memory =>
                /\ ~last'.failed /\ ~last'.raised
                /\ memory' = Append(memory, <<last'.question, last'.llm>>)]_vars

\* C12 happens: a question failed on a memory that holds a turn
C12_Witness ==
    /\ last.op \in {"query", "chat"}
    /\ last.failed /\ last.raised
    /\ Len(memory) > 0
    /\ index # EmptyMap

\* C13: on one engine instance the conversation memory is the sequence of
\* (question, answer) turns of the questions that got a model response since
\* the last clear, in arrival order, one turn per question: an answered
\* question appends its turn, a failed one and the early return of the latest
\* filter append nothing, a clear empties it, nothing else touches it.
C13_MemoryIsTheAnsweredTurns ==
    [][CASE last'.op \in {"query", "chat"} ->
               memory' = IF last'.raised \/ last'.short THEN memory
                         ELSE Append(memory, <<last'.question, last'.llm>>)
         [] last'.op = "clear" -> memory' = <<>>
         [] last'.op = "reset" -> TRUE
         [] OTHER -> memory' = memory]_vars

\* C13 happens: two different questions were answered, and their turns are
\* in the memory in the order of arrival
C13_Witness ==
    /\ Answered({"query", "chat"}) /\ ~last.short
    /\ Len(memory) = 2
    /\ memory[1][1] # memory[2][1]
    /\ memory[2] = <<last.question, last.llm>>

\* C14: a clear can be called in every state; after it the memory is empty
\* (also when it already was), and the vector index, the registry, its file,
\* latest_document_id and current_web_ids are what they were.
C14_ClearOnlyEmptiesMemory ==
    [][last'.op = "clear" =>
          /\ memory' = <<>>
          /\ index' = index
          /\ disk_metadata' = disk_metadata
          /\ document_metadata' = GetRagEngine.document_metadata
          /\ latest_document_id' = GetRagEngine.latest_document_id
          /\ current_web_ids' = GetRagEngine.current_web_ids]_vars

\* C14 happens: a clear emptied a memory of turns next to an index, a
\* registry, a latest document and tracked web ids
C14_Witness ==
    /\ last.op = "clear"
    /\ last.before > 0
    /\ memory = <<>>
    /\ NonWebUnits # EmptyMap
    /\ document_metadata # EmptyMap
    /\ latest_document_id # None
    /\ current_web_ids # {}

\* C15: after reset_rag_engine() the engine that get_rag_engine() builds on
\* the same directory finds every unit of the last ingestion that returned
\* successfully, and has that ingestion's registry entry.
C15_RestartKeepsUnitsAndRegistry ==
    (last.op = "reset" /\ last_add.doc # None) =>
        /\ last_add.units \subseteq Eligible(EmptyMap)
        /\ last_add.doc \in DOMAIN GetRagEngine.document_metadata

\* the last operation was an ingestion through add_documents that succeeded
Ingested == last.op \in {"ingest_file", "add_documents"} /\ last.value

\* C16: an ingestion that succeeds records a document_id that was not in the
\* registry, adds one unit per document under ids that were not in the index,
\* and leaves every earlier unit as it was; so the second ingestion of the
\* same source has another document_id and as many new units as the first.
C16_SecondIngestionIsIndependent ==
    [][(last'.op \in {"ingest_file", "add_documents"} /\ last'.value) =>
          /\ last'.doc \notin DOMAIN GetRagEngine.document_metadata
          /\ DOMAIN document_metadata' =
                DOMAIN GetRagEngine.document_metadata \cup {last'.doc}
          /\ last'.units \cap IndexIds = {}
          /\ Cardinality(last'.units) = last'.count
          /\ IndexIds' = IndexIds \cup last'.units
          /\ \A i \in IndexIds : index'[i] = index[i]
          /\ (Ingested /\ last.op = last'.op /\ last.src = last'.src) =>
                /\ last'.doc # last.doc
                /\ Cardinality(last'.units) = Cardinality(last.units)
                /\ Cardinality(IndexIds') = Cardinality(IndexIds \ last.units)
                                               + 2 * Cardinality(last.units)]_vars

\* C16 happens: the registry holds two documents of the same upload, and the
\* index holds as many units of the first as of the second
C16_Witness ==
    /\ Ingested /\ last.op = "ingest_file"
    /\ last.units # {}
    /\ \E d \in DOMAIN document_metadata \ {last.doc} :
          /\ document_metadata[d] = document_metadata[last.doc]
          /\ Cardinality({i \in IndexIds : Get(index[i], "document_id", None) = d})
                = Cardinality(last.units)

\* the source_type argument of the last ingestion
SourceTypeArgument == IF last.op = "ingest_file" THEN "file" ELSE last.src

\* C17: after add_documents, whatever the caller's metadata, every stored
\* unit has the source_type of the argument and the generated document_id,
\* and the registry entry has the source_type of the argument.
C17_ReservedKeysAreTheEngines ==
    (Ingested /\ faults = 0) =>
        /\ \A u \in last.units :
              /\ index[u].source_type = SourceTypeArgument
              /\ index[u].document_id = last.doc
        /\ document_metadata[last.doc].source_type = SourceTypeArgument

\* C18: an ingestion whose normalizer yields no unit raises nothing and
\* changes nothing: not the registry, not its file, not latest_document_id,
\* not the index.
C18_ZeroUnitsIsNoOp ==
    [][(/\ last'.op \in {"ingest_file", "add_documents"}
        /\ last'.parsed /\ last'.count = 0
        /\ faults' = 0) =>
          /\ ~last'.raised
          /\ document_metadata' = GetRagEngine.document_metadata
          /\ latest_document_id' = GetRagEngine.latest_document_id
          /\ disk_metadata' = disk_metadata
          /\ index' = index]_vars

\* C19: after an ingestion that succeeds, of an upload, of rows or of a web
\* page, latest_document_id is a key of the registry and is the document_id
\* of that ingestion, the one its units carry.
C19_LatestIsTheNewDocument ==
    /\ (Ingested /\ faults = 0) =>
          /\ latest_document_id = last.doc
          /\ latest_document_id \in DOMAIN document_metadata
    /\ (last.op = "web" /\ last.value /\ last.ids # {} /\ faults = 0) =>
          /\ latest_document_id \in DOMAIN document_metadata
          /\ \A u \in last.ids :
                Get(index[u], "document_id", None) = latest_document_id

\* C20: an entry of the registry, once recorded, is there with the same
\* value after every later operation, failed ones and restarts included.
C20_RegistryIsAppendOnly ==
    [][\A d \in DOMAIN GetRagEngine.document_metadata :
          /\ d \in DOMAIN GetRagEngine'.document_metadata
          /\ GetRagEngine'.document_metadata[d] = GetRagEngine.document_metadata[d]]_vars

\* C21: when add_documents raises because the vector store write failed,
\* nothing of the call is registered: the registry, latest_document_id and
\* the index are what they were.
C21_FailedAddRegistersNothing ==
    [][(last'.op \in {"ingest_file", "add_documents"} /\ last'.raised) =>
          /\ document_metadata' = GetRagEngine.document_metadata
          /\ latest_document_id' = GetRagEngine.latest_document_id
          /\ index' = index]_vars

\* C22: a web ingestion that fails (fetch or store) writes nothing: the index
\* and current_web_ids are what they were before the call.
C22_FailedWebIngestionWritesNothing ==
    [][(last'.op = "web" /\ ~last'.value) =>
          /\ index' = index
          /\ current_web_ids' = GetRagEngine.current_web_ids]_vars

\* C23: a failure of the normalizer (parse of an upload, fetch of a page)
\* reaches the caller as an error, not as a return value.
C23_NormalizerFailureIsRaised ==
    /\ (last.op = "ingest_file" /\ ~last.parsed) => last.raised
    /\ (last.op = "web" /\ last.outcome = "fetch_failed") => last.raised

\* C27: when add_documents returns, the registry file holds exactly the
\* registry of the engine.
C27_ReturnMeansRegistryPersisted ==
    (last.op \in {"ingest_file", "add_documents"} /\ last.value) =>
        disk_metadata = document_metadata

\* the source types of the data model
SourceTypes == {"document", "web", "image", "database"}

\* C28: every unit of the index has a source_type of the data model and a
\* document_id, and that document_id is a key of the registry.
C28_UnitsBelongToRegisteredDocuments ==
    faults = 0 =>
        \A i \in IndexIds :
            /\ "source_type" \in DOMAIN index[i]
            /\ index[i].source_type \in SourceTypes
            /\ "document_id" \in DOMAIN index[i]
            /\ index[i].document_id \in DOMAIN GetRagEngine.document_metadata

\* C25: a crawl ends, on cyclic link graphs too: it fetches every url at most
\* once, so at most as many pages as the site has, all of the start's
\* domain, and none at a level below max_depth levels.
C25_CrawlFetchesEachUrlOnce ==
    last.op = "crawl" =>
        /\ \A i, j \in DOMAIN last.fetched :
              i # j => last.fetched[i][1] # last.fetched[j][1]
        /\ \A i \in DOMAIN last.fetched :
              /\ last.fetched[i][2] >= 1
              /\ last.fetched[i][2] <= last.max_depth
              /\ Netloc(last.fetched[i][1]) = Netloc(StartUrl)
        /\ Len(last.fetched) <= Cardinality(CrawlUrls)
        /\ {last.fetched[i][1] : i \in DOMAIN last.fetched} = last.visited

\* C25 happens: a crawl of depth 3 over a site with a cycle through the
\* start and a page that links to itself fetched all four pages
C25_Witness ==
    /\ last.op = "crawl"
    /\ last.max_depth = 3
    /\ StartUrl \in last.site.links["http://d/c"]
    /\ "http://d/a" \in last.site.links["http://d/a"]
    /\ Len(last.fetched) = 4
    /\ \E i \in DOMAIN last.fetched : last.fetched[i][2] = 1

RECURSIVE ReachableWithin(_, _)
\* the pages of the start's domain at most hops links away from the start
ReachableWithin(links, hops) ==
    IF hops = 0 THEN {StartUrl}
    ELSE LET near == ReachableWithin(links, hops - 1)
         IN  near \cup {l \in UNION {links[p] : p \in near} : Netloc(l) = Netloc(StartUrl)}

\* C29: a crawl with max_depth = d in which no fetch fails returns the
\* documents of every page of the domain at most d - 1 links from the start.
C29_CrawlReachesEveryPageInDepth ==
    (last.op = "crawl" /\ last.site.fails = {}) =>
        ReachableWithin(last.site.links, last.max_depth - 1)
            \subseteq {last.documents[i] : i \in DOMAIN last.documents}

\* C24: an upload request that returns, in a run where no call on the
\* environment failed, has one result per file of the request, in order, and the status of a result is "success" exactly when
\* ingest_file returned True for that file, "failure" otherwise.
C24_UploadStatusIsIngestResult ==
    (upload.pc = "done" /\ ~upload.raised /\ faults = 0) =>
        /\ Len(upload.results) = Len(upload.request)
        /\ \A i \in DOMAIN upload.results :
              /\ upload.results[i].filename = upload.request[i]
              /\ upload.results[i].status =
                     IF upload.returned[i] THEN "success" ELSE "failure"

\* C26: when two ingest_web_page calls have both returned True, in a run
\* where no call on the environment failed and over an index that holds an
\* uploaded unit, the web units of the index are the units of exactly one of
\* the two calls, and current_web_ids is exactly the ids of that call.
C26_ConcurrentWebIngestionsDoNotRace ==
    (/\ faults = 0
     /\ NonWebUnits # EmptyMap
     /\ \A t \in Tasks : inflight[t].pc = "done" /\ inflight[t].value) =>
        \E t \in Tasks :
           /\ WebUnitIds = inflight[t].ids
           /\ current_web_ids = inflight[t].ids

\* C30: the documents a query has retrieved all match the filter that this
\* query resolved from its own source_filter.
C30_QueryRetrievesWithOwnFilter ==
    \A t \in Tasks :
       asking[t].pc \in {"answer", "done"} =>
          \A i \in DOMAIN asking[t].docs :
             Matches(index[asking[t].docs[i]], asking[t].filter)
====
